---- MODULE Spec2Model ----
(***************************************************************************)
(* Model of isi_data_insights_config.py: the configuration pass that turns *)
(* command line arguments and config-file sections into StatsConfig        *)
(* objects registered with the IsiDataInsightsDaemon.                      *)
(*                                                                         *)
(* The python functions are modelled as operators over a record w, "the    *)
(* world": the module globals, the daemon, and bookkeeping of the remote   *)
(* calls, prompts and warnings the functions issue.  w.status is "run"     *)
(* while the process runs, "ApiException" while an isi_sdk ApiException    *)
(* propagates, and "exit" once the process has ended (sys.exit or an       *)
(* uncaught exception); w.ret is the return value of the last call.        *)
(***************************************************************************)
EXTENDS Integers, Sequences, FiniteSets, TLC

VARIABLES
    pc,                            \* position of the configuration pass
    why,                           \* reason the process ended ("" while it runs)
    args,                          \* parsed command line (parse_cli)
    MIN_UPDATE_INTERVAL,           \* module global, line 32 / 483
    g_cluster_auth_data,           \* module global, line 39
    g_cluster_names_and_versions,  \* module global, line 41
    global_cluster_list,           \* local of configure_via_file, line 489
    groups_done,                   \* active_stat_groups entries processed
    calls,                         \* StatsConfigs the last step passed to daemon.add_stats
    stat_sets,                     \* the daemon's stat sets, by update interval
    reqs,                          \* the stat-group requests of the last step
    prompts,                       \* interactive prompt sessions per address
    probes,                        \* _verify_cluster_auth_data calls per address
    verified,                      \* addresses whose cached credential passed the probe
    failed,                        \* the probes that raised ApiException
    name_queries,                  \* get_cluster_identity calls per address
    version_queries,               \* get_cluster_version calls per address
    depth_reached,                 \* deepest nesting of _get_cluster_auth_data
    fn_in,                         \* input of the function applied (SpecFn)
    fn_out                         \* its result (SpecFn)

vars == <<pc, why, args, MIN_UPDATE_INTERVAL, g_cluster_auth_data,
          g_cluster_names_and_versions, global_cluster_list, groups_done,
          calls, stat_sets, reqs, prompts, probes, verified, failed,
          name_queries, version_queries, depth_reached,
          fn_in, fn_out>>

----------------------------------------------------------------------------
(* Bounds of the model *)

MaxGroups == 2          \* entries of active_stat_groups
MaxNodes == 3           \* nodes in a get_cluster_version response
MaxPolicies == 2        \* policies of one stat metadata
MaxCacheTime == 3       \* largest default_cache_time drawn
MaxPolicyInterval == 4  \* largest policy interval drawn
MaxMultiplier == 2      \* largest update interval multiplier drawn
MaxRecursion == 4       \* the interpreter's recursion limit, in activations
                        \* of _get_cluster_auth_data

(* Program constants *)

ONE_SEC == 1
DEFAULT_MIN_UPDATE_INTERVAL == 30
SDK_DEFAULT_VERSION == 80     \* 8.0, versions are kept in tenths
FALLBACK_VERSION == 72        \* 7.2

None == "None"

Addrs == {"c1", "c2"}
AddrUniverse == Addrs \cup {""}
Stats == {"s1", "s2"}

----------------------------------------------------------------------------
(* Helpers *)

Range(s) == {s[i] : i \in DOMAIN s}

Put(f, k, v) == [x \in DOMAIN f \cup {k} |-> IF x = k THEN v ELSE f[x]]

Min2(a, b) == IF a < b THEN a ELSE b

SetMin(S) == CHOOSE x \in S : \A y \in S : x <= y

\* list(set(xs)): the distinct elements, in the order ord gives them
ListOfSet(S, ord) == SelectSeq(ord, LAMBDA x : x \in S)

Perms(S) == {p \in [1..Cardinality(S) -> S] : Range(p) = S}

DigitVal(ch) ==
    CASE ch = "0" -> 0 [] ch = "1" -> 1 [] ch = "2" -> 2 [] ch = "3" -> 3
      [] ch = "4" -> 4 [] ch = "5" -> 5 [] ch = "6" -> 6 [] ch = "7" -> 7
      [] ch = "8" -> 8 [] ch = "9" -> 9 [] OTHER -> -1

RECURSIVE DigitsValue(_, _)
DigitsValue(text, acc) ==
    IF text = <<>> THEN acc
    ELSE DigitsValue(Tail(text), acc * 10 + DigitVal(Head(text)))

\* python int(text): [ok |-> FALSE] stands for ValueError
ParseInt(text) ==
    LET neg == text # <<>> /\ Head(text) = "-"
        digits == IF neg THEN Tail(text) ELSE text
    IN  IF digits = <<>> \/ \E i \in DOMAIN digits : DigitVal(digits[i]) < 0
        THEN [ok |-> FALSE, val |-> 0]
        ELSE [ok |-> TRUE,
              val |-> IF neg THEN 0 - DigitsValue(digits, 0)
                      ELSE DigitsValue(digits, 0)]

\* python float(text) for the characters release[1:4], in tenths;
\* [ok |-> FALSE] stands for ValueError
ParseFloatTenths(text) ==
    IF Len(text) = 3 /\ DigitVal(text[1]) >= 0 /\ text[2] = "."
       /\ DigitVal(text[3]) >= 0
    THEN [ok |-> TRUE, val |-> DigitVal(text[1]) * 10 + DigitVal(text[3])]
    ELSE IF Len(text) = 3 /\ DigitVal(text[1]) >= 0 /\ DigitVal(text[2]) >= 0
            /\ text[3] = "."
    THEN [ok |-> TRUE,
          val |-> (DigitVal(text[1]) * 10 + DigitVal(text[2])) * 10]
    ELSE IF text # <<>> /\ \A i \in DOMAIN text : DigitVal(text[i]) >= 0
    THEN [ok |-> TRUE, val |-> DigitsValue(text, 0) * 10]
    ELSE [ok |-> FALSE, val |-> 0]

Complete(cred) == cred[1] # None /\ cred[2] # None /\ cred[3] # None

\* The world the functions act on, read from the state; every step starts
\* with empty logs of requests and add_stats calls
World ==
    [auth |-> g_cluster_auth_data,
     nv |-> g_cluster_names_and_versions,
     calls |-> <<>>,
     sets |-> stat_sets,
     reqs |-> <<>>,
     prompts |-> prompts,
     probes |-> probes,
     verified |-> verified,
     failed |-> failed,
     name_queries |-> name_queries,
     version_queries |-> version_queries,
     depth |-> 0,
     max_depth |-> depth_reached,
     cur |-> 0,
     status |-> "run",
     why |-> "",
     ret |-> <<>>]

Exit(w, reason) == [w EXCEPT !.status = "exit", !.why = reason]

\* one remote call, made on behalf of the current request (if any)
NetCall(w) == IF w.cur = 0 THEN w ELSE [w EXCEPT !.reqs[w.cur].net = @ + 1]

----------------------------------------------------------------------------
(* The remote cluster API *)

\* the API accepts a request iff it carries the right password
ApiAccepts(cred) == cred[1] # None /\ cred[2] = "good"

\* get_stats_metadata: one StatMetadata per requested key
StatsMetadata(stat_names, resp) ==
    [i \in 1..Len(stat_names) |->
        [key |-> stat_names[i],
         default_cache_time |-> resp[stat_names[i]].default_cache_time,
         policies |-> resp[stat_names[i]].policies]]

ProbeResp == [k \in {"cluster.health"} |->
                 [default_cache_time |-> <<>>, policies |-> <<>>]]

----------------------------------------------------------------------------
(* Credentials: lines 44-137, 241-249.  A function that goes on after a    *)
(* call is split where the call returns: the operator named after the      *)
(* function makes the call and hands the world it returns to the operator  *)
(* that models the rest of the body.                                       *)

RECURSIVE _get_cluster_auth_data(_, _, _)

\* lines 247-249: the query, made with the credential _get_cluster_auth_data
\* returned
QueryStatsMetadata(w1, stat_names, resp) ==
    IF w1.status # "run" THEN w1
    ELSE IF ApiAccepts(w1.ret)
    THEN [NetCall(w1) EXCEPT !.ret = StatsMetadata(stat_names, resp)]
    ELSE [NetCall(w1) EXCEPT !.status = "ApiException"]

_query_stats_metadata(w, cluster, stat_names, resp, ans) ==
    QueryStatsMetadata(_get_cluster_auth_data(w, cluster, ans),
                       stat_names, resp)

\* a failed probe, with the probes issued, the add_stats calls made and the
\* stat sets registered when it failed
FailedProbe(w1, cluster_address) ==
    [address |-> cluster_address, probes |-> w1.probes,
     calls |-> Len(w1.calls), sets |-> w1.sets]

\* a faulty outcome: the ApiException of the probe is swallowed, no sys.exit(1)
ProbeOutcomeNoExit(w1, cluster_address) ==
    IF w1.status = "ApiException"
    THEN [w1 EXCEPT !.status = "run",
                    !.failed = @ \cup {FailedProbe(w1, cluster_address)}]
    ELSE IF w1.status = "run"
    THEN [w1 EXCEPT !.verified = @ \cup {cluster_address}]
    ELSE w1

\* lines 49-52: the outcome of the probe
ProbeOutcome(w1, cluster_address) ==
    IF w1.status = "ApiException"
    THEN [Exit(w1, "auth") EXCEPT
             !.failed = @ \cup {FailedProbe(w1, cluster_address)}]
    ELSE IF w1.status = "run"
    THEN [w1 EXCEPT !.verified = @ \cup {cluster_address}]
    ELSE w1

_verify_cluster_auth_data(w, cluster_address, ans) ==
    ProbeOutcome(
        _query_stats_metadata([w EXCEPT !.probes[cluster_address] = @ + 1],
                              cluster_address, <<"cluster.health">>,
                              ProbeResp, ans),
        cluster_address)

\* line 57
CacheAuthData(w, cluster_address, username, password, verify_ssl) ==
    [w EXCEPT !.auth = Put(@, cluster_address,
                           <<username, password, verify_ssl>>),
              !.verified = @ \ {cluster_address}]

\* a faulty _add_cluster_auth_data: the credential is cached, never verified
_add_cluster_auth_data_no_verify(w, cluster_address, username, password, verify_ssl, ans) ==
    CacheAuthData(w, cluster_address, username, password, verify_ssl)

_add_cluster_auth_data(w, cluster_address, username, password, verify_ssl, ans) ==
    IF username # None /\ password # None /\ verify_ssl # None
    THEN _verify_cluster_auth_data(
             CacheAuthData(w, cluster_address, username, password,
                           verify_ssl),
             cluster_address, ans)
    ELSE CacheAuthData(w, cluster_address, username, password, verify_ssl)

\* line 137
ReturnAuthData(w2, cred) ==
    IF w2.status = "run" THEN [w2 EXCEPT !.ret = cred, !.depth = @ - 1]
    ELSE w2

\* one more activation of _get_cluster_auth_data on the stack
Enter(w) ==
    [w EXCEPT !.depth = @ + 1,
              !.max_depth = IF w.depth + 1 > @ THEN w.depth + 1 ELSE @]

\* a faulty line 117: a complete cached credential is not recognised, and
\* is added to the cache again
_get_cluster_auth_data_always_adds(w, cluster, ans) ==
    LET known == cluster \in DOMAIN w.auth
        cur == IF known THEN w.auth[cluster] ELSE <<None, None, None>>
        username == IF cur[1] = None THEN ans[cluster][1] ELSE cur[1]
        password == IF cur[2] = None THEN ans[cluster][2] ELSE cur[2]
        verify_ssl == IF cur[3] = None THEN ans[cluster][3] ELSE cur[3]
    IN  IF w.status # "run" THEN w
        ELSE IF w.depth >= MaxRecursion THEN Exit(w, "RecursionError")
        ELSE ReturnAuthData(
                 _add_cluster_auth_data(
                     Enter(IF known /\ Complete(cur) THEN w
                           ELSE [w EXCEPT !.prompts[cluster] = @ + 1]),
                     cluster, username, password, verify_ssl, ans),
                 <<username, password, verify_ssl>>)

\* ans[cluster] = <<username, password, verify_ssl>> as typed at the prompts
_get_cluster_auth_data(w, cluster, ans) ==
    LET known == cluster \in DOMAIN w.auth
        cur == IF known THEN w.auth[cluster] ELSE <<None, None, None>>
        username == IF cur[1] = None THEN ans[cluster][1] ELSE cur[1]
        password == IF cur[2] = None THEN ans[cluster][2] ELSE cur[2]
        verify_ssl == IF cur[3] = None THEN ans[cluster][3] ELSE cur[3]
    IN  IF w.status # "run" THEN w
        ELSE IF w.depth >= MaxRecursion THEN Exit(w, "RecursionError")
        ELSE IF known /\ Complete(cur)
        THEN ReturnAuthData(Enter(w), cur)
        ELSE ReturnAuthData(
                 _add_cluster_auth_data(
                     Enter([w EXCEPT !.prompts[cluster] = @ + 1]),
                     cluster, username, password, verify_ssl, ans),
                 <<username, password, verify_ssl>>)

----------------------------------------------------------------------------
(* Cluster identity: lines 148-217 *)

\* idr: what the cluster answers to the identity queries:
\*   name: "ApiException" or the cluster's name
\*   has_get_cluster_version: hasattr(cluster_api, "get_cluster_version")
\*   version_exc: get_cluster_version raises ApiException
\*   nodes: the node releases, each a sequence of characters
\* a faulty _query_cluster_name: the ApiException of line 156 is not caught
_query_cluster_name_raises(w, cluster_address, idr) ==
    IF idr.name = "ApiException"
    THEN [NetCall(w) EXCEPT !.status = "ApiException",
                            !.name_queries[cluster_address] = @ + 1]
    ELSE [NetCall(w) EXCEPT !.ret = idr.name,
                            !.name_queries[cluster_address] = @ + 1]

_query_cluster_name(w, cluster_address, idr) ==
    IF idr.name = "ApiException"
    THEN [NetCall(w) EXCEPT !.ret = cluster_address,
                            !.name_queries[cluster_address] = @ + 1]
    ELSE [NetCall(w) EXCEPT !.ret = idr.name,
                            !.name_queries[cluster_address] = @ + 1]

\* line 181: float(node.release[1:4]), in tenths
NodeVersion(release) ==
    ParseFloatTenths(SubSeq(release, 2, Min2(4, Len(release))))

\* the for loop of lines 179-184, version in tenths; [ok |-> FALSE] when
\* float() raises ValueError
RECURSIVE NodeVersionLoop(_, _)
NodeVersionLoop(nodes, version) ==
    IF nodes = <<>> THEN [ok |-> TRUE, val |-> version]
    ELSE IF Head(nodes) # <<>> /\ Head(nodes)[1] = "v"
    THEN IF ~NodeVersion(Head(nodes)).ok THEN [ok |-> FALSE, val |-> 0]
         ELSE IF NodeVersion(Head(nodes)).val < version
         THEN [ok |-> TRUE, val |-> NodeVersion(Head(nodes)).val]
         ELSE NodeVersionLoop(Tail(nodes), version)
    ELSE NodeVersionLoop(Tail(nodes), version)

\* the version _query_cluster_version returns for a cluster answering idr
cluster_version(idr) ==
    IF idr.has_get_cluster_version
    THEN IF idr.version_exc THEN [ok |-> TRUE, val |-> FALLBACK_VERSION]
         ELSE NodeVersionLoop(idr.nodes, SDK_DEFAULT_VERSION)
    ELSE [ok |-> TRUE, val |-> FALLBACK_VERSION]

ReturnVersion(w1, v) ==
    IF v.ok THEN [w1 EXCEPT !.ret = v.val] ELSE Exit(w1, "ValueError")

\* line 176, reached when the client has get_cluster_version
GetClusterVersion(w, cluster_address) ==
    [NetCall(w) EXCEPT !.version_queries[cluster_address] = @ + 1]

_query_cluster_version(w, cluster_address, idr) ==
    ReturnVersion(IF idr.has_get_cluster_version
                  THEN GetClusterVersion(w, cluster_address) ELSE w,
                  cluster_version(idr))

ClusterConfig(address, username, password, version, name, verify_ssl) ==
    [address |-> address, username |-> username, password |-> password,
     version |-> version, name |-> name, verify_ssl |-> verify_ssl]

\* a faulty line 210: the identity is queried but not saved
SaveIdentityDropped(w3, cluster, cluster_name) ==
    IF w3.status # "run" THEN w3
    ELSE [w3 EXCEPT !.ret = <<cluster_name, w3.ret>>]

\* line 210; the (name, version) pair is left in w.ret
SaveIdentity(w3, cluster, cluster_name) ==
    IF w3.status # "run" THEN w3
    ELSE [w3 EXCEPT !.nv = Put(@, cluster, <<cluster_name, w3.ret>>),
                    !.ret = <<cluster_name, w3.ret>>]

\* lines 208-209
QueryVersion(w2, cluster, idr) ==
    SaveIdentity(_query_cluster_version(w2, cluster, idr), cluster, w2.ret)

\* what the cluster answers to the queries of lines 205-209, noted in the
\* request
NoteIdentity(w1, cluster, idr) ==
    [w1 EXCEPT !.reqs[w1.cur].identity = Put(@, cluster, idr)]

\* lines 202-210
ResolveIdentity(w1, cluster, idr) ==
    IF cluster \in DOMAIN w1.nv THEN [w1 EXCEPT !.ret = w1.nv[cluster]]
    ELSE QueryVersion(
             _query_cluster_name(NoteIdentity(w1, cluster, idr[cluster]),
                                 cluster, idr[cluster]),
             cluster, idr[cluster])

RECURSIVE BuildLoop(_, _, _, _, _)

\* lines 212-215
AppendClusterConfig(w5, cred, cluster_list, cluster_configs, ans, idr) ==
    IF w5.status # "run" THEN w5
    ELSE BuildLoop(w5, Tail(cluster_list),
             Append(cluster_configs,
                    ClusterConfig(Head(cluster_list), cred[1], cred[2],
                                  w5.ret[2], w5.ret[1], cred[3])),
             ans, idr)

\* lines 202-215, with the credential line 200 returned
BuildClusterConfig(w1, cluster_list, cluster_configs, ans, idr) ==
    IF w1.status # "run" THEN w1
    ELSE AppendClusterConfig(ResolveIdentity(w1, Head(cluster_list), idr),
                             w1.ret, cluster_list, cluster_configs, ans, idr)

\* the for loop of lines 199-215
BuildLoop(w, cluster_list, cluster_configs, ans, idr) ==
    IF w.status # "run" THEN w
    ELSE IF cluster_list = <<>> THEN [w EXCEPT !.ret = cluster_configs]
    ELSE BuildClusterConfig(
             _get_cluster_auth_data(w, Head(cluster_list), ans),
             cluster_list, cluster_configs, ans, idr)

_build_cluster_configs(w, cluster_list, ans, idr) ==
    BuildLoop(w, cluster_list, <<>>, ans, idr)

----------------------------------------------------------------------------
(* The daemon (isi_data_insights_daemon, not part of this file) *)

StatsConfig(cluster_configs, stats, update_interval) ==
    [cluster_configs |-> cluster_configs, stats |-> stats,
     update_interval |-> update_interval]

ConfigAddrs(cluster_configs) ==
    {cluster_configs[i].address : i \in DOMAIN cluster_configs}

\* daemon.add_stats: an empty group is fatal; a group whose interval is
\* already registered is merged into that stat set
add_stats(w, stats_config) ==
    LET ui == stats_config.update_interval
        cs == ConfigAddrs(stats_config.cluster_configs)
    IN  IF cs = {} \/ stats_config.stats = {}
        THEN Exit(w, "empty_group")
        ELSE IF ui \in DOMAIN w.sets
        THEN [w EXCEPT !.sets[ui] =
                 [clusters |-> @.clusters \cup cs,
                  stats |-> @.stats \cup stats_config.stats]]
        ELSE [w EXCEPT !.sets =
                 Put(@, ui, [clusters |-> cs, stats |-> stats_config.stats])]

\* daemon.get_stat_set_count
get_stat_set_count(sets) == Cardinality(DOMAIN sets)

----------------------------------------------------------------------------
(* Stat groups: lines 220-292 *)

\* the log entry of one daemon.add_stats(stats_config) call made for
\* request req; the cluster configs are logged as a set
Call(req, stats_config) ==
    [req |-> req,
     cluster_configs |-> Range(stats_config.cluster_configs),
     stats |-> stats_config.stats,
     update_interval |-> stats_config.update_interval]

\* line 238
\* a faulty line 238: the StatsConfig is built, never handed to the daemon
CallAddStatsDropped(w, stats_config) ==
    IF ConfigAddrs(stats_config.cluster_configs) = {}
           \/ stats_config.stats = {}
    THEN Exit([w EXCEPT !.calls = Append(@, Call(w.cur, stats_config))],
              "empty_group")
    ELSE [w EXCEPT !.calls = Append(@, Call(w.cur, stats_config))]

CallAddStats(w, stats_config) ==
    add_stats([w EXCEPT !.calls = Append(@, Call(w.cur, stats_config))],
              stats_config)

\* a faulty _configure_stat_group: the interval is passed on as requested
EmitStatsConfigNoFloor(w1, update_interval, stats_list) ==
    IF w1.status # "run" THEN w1
    ELSE CallAddStats(w1, StatsConfig(w1.ret, stats_list, update_interval))

\* lines 227-238, with the cluster configs line 225 returned in w1.ret
EmitStatsConfig(w1, update_interval, stats_list) ==
    IF w1.status # "run" THEN w1
    ELSE IF update_interval < MIN_UPDATE_INTERVAL
    THEN CallAddStats([w1 EXCEPT !.reqs[w1.cur].warned = @ + 1],
                      StatsConfig(w1.ret, stats_list, MIN_UPDATE_INTERVAL))
    ELSE CallAddStats(w1, StatsConfig(w1.ret, stats_list, update_interval))

\* stats_list is the set of the stat keys of the group
_configure_stat_group(w, update_interval, cluster_list, stats_list, ans, idr) ==
    EmitStatsConfig(_build_cluster_configs(w, cluster_list, ans, idr),
                    update_interval, stats_list)

Truthy(opt) == opt # <<>> /\ opt[1] # 0

\* the for loop of lines 271-277
RECURSIVE SmallestInterval(_, _)
SmallestInterval(policies, smallest_interval) ==
    IF policies = <<>> THEN smallest_interval
    ELSE SmallestInterval(Tail(policies),
            IF smallest_interval = -1 THEN Head(policies).interval
            ELSE Min2(Head(policies).interval, smallest_interval))

\* a faulty lines 263-267: the second after the cache time is not added
DefaultCacheTimeNoSettle(stat_metadata, update_interval_multiplier) ==
    IF Truthy(stat_metadata.default_cache_time)
    THEN stat_metadata.default_cache_time[1] * update_interval_multiplier
    ELSE -1

\* lines 261-267
DefaultCacheTime(stat_metadata, update_interval_multiplier) ==
    IF Truthy(stat_metadata.default_cache_time)
    THEN (stat_metadata.default_cache_time[1] + 1)
             * update_interval_multiplier
    ELSE -1

\* lines 269-279
PolicyCacheTime(stat_metadata, update_interval_multiplier, cache_time0) ==
    IF stat_metadata.policies # <<>>
    THEN SmallestInterval(stat_metadata.policies, cache_time0)
             * update_interval_multiplier
    ELSE cache_time0

\* lines 283-284
ContinualCacheTime(cache_time1, update_interval_multiplier) ==
    IF cache_time1 = -1 THEN ONE_SEC * update_interval_multiplier
    ELSE cache_time1

\* lines 261-284: the update interval of one stat; default_cache_time is
\* <<>> (None) or <<seconds>>
cache_time(stat_metadata, update_interval_multiplier) ==
    ContinualCacheTime(
        PolicyCacheTime(stat_metadata, update_interval_multiplier,
            DefaultCacheTime(stat_metadata, update_interval_multiplier)),
        update_interval_multiplier)

\* lines 285-292
AddToInterval(update_intervals, ct, cluster, key) ==
    IF ct \in DOMAIN update_intervals
    THEN [update_intervals EXCEPT ![ct] =
             <<@[1] \cup {cluster}, @[2] \cup {key}>>]
    ELSE Put(update_intervals, ct, <<{cluster}, {key}>>)

\* the for loop of lines 258-292 for one cluster
RECURSIVE StatLoop(_, _, _, _)
StatLoop(update_intervals, cluster, stats_metadata, mult) ==
    IF stats_metadata = <<>> THEN update_intervals
    ELSE StatLoop(AddToInterval(update_intervals,
                                cache_time(Head(stats_metadata), mult),
                                cluster, Head(stats_metadata).key),
                  cluster, Tail(stats_metadata), mult)

RECURSIVE _compute_stat_group_update_intervals(_, _, _, _, _, _, _)

\* the interval computed for each stat of one cluster, noted in the request
NoteResolved(w1, cluster, mult) ==
    [w1 EXCEPT !.reqs[w1.cur].resolved =
        [p \in DOMAIN @ \cup {<<cluster, w1.ret[i].key>> : i \in DOMAIN w1.ret}
            |-> IF p \in DOMAIN @ THEN @[p]
                ELSE cache_time(
                         w1.ret[CHOOSE i \in DOMAIN w1.ret :
                                    w1.ret[i].key = p[2]],
                         mult)]]

\* lines 258-292, with the metadata line 257 returned in w1.ret
ComputeCluster(w1, update_interval_multiplier, cluster_list, stat_names, update_intervals, resp, ans) ==
    IF w1.status # "run" THEN w1
    ELSE _compute_stat_group_update_intervals(
             NoteResolved(w1, Head(cluster_list), update_interval_multiplier),
             update_interval_multiplier, Tail(cluster_list), stat_names,
             StatLoop(update_intervals, Head(cluster_list), w1.ret,
                      update_interval_multiplier),
             resp, ans)

\* resp[cluster][key] is the metadata the cluster holds for the key;
\* the result, update_intervals, is left in w.ret
_compute_stat_group_update_intervals(w, update_interval_multiplier, cluster_list, stat_names, update_intervals, resp, ans) ==
    IF w.status # "run" THEN w
    ELSE IF cluster_list = <<>> THEN [w EXCEPT !.ret = update_intervals]
    ELSE ComputeCluster(
             _query_stats_metadata(w, Head(cluster_list), stat_names,
                                   resp[Head(cluster_list)], ans),
             update_interval_multiplier, cluster_list, stat_names,
             update_intervals, resp, ans)

----------------------------------------------------------------------------
(* Config file clusters: lines 65-109 *)

\* A cluster config "[username:password@]address[:bool]" is kept as the
\* pieces the splits of lines 70, 72 and 89 cut it into:
\*   n_at: the number of "@" in it (len(at_split) - 1)
\*   user_pass_split: at_split[0].split(":", 1) when n_at = 1
\*   verify_ssl_split: at_split[-1].split(":", 1)
ClusterToken(n_at, user_pass_split, verify_ssl_split) ==
    [n_at |-> n_at, user_pass_split |-> user_pass_split,
     verify_ssl_split |-> verify_ssl_split]

\* eval(text) and the type check of lines 95-97
EvalBool(text) ==
    IF text \in {"True", "False"} THEN [ok |-> TRUE, val |-> text]
    ELSE [ok |-> FALSE, val |-> None]

\* the for loop of lines 68-107; the result, cluster_list, is left in w.ret
RECURSIVE ClusterTokenLoop(_, _, _, _)
ClusterTokenLoop(w, cluster_configs, cluster_list, ans) ==
    IF w.status # "run" THEN w
    ELSE IF cluster_configs = <<>> THEN [w EXCEPT !.ret = cluster_list]
    ELSE LET cluster_config == Head(cluster_configs)
             has_auth == cluster_config.n_at = 1
             user_pass_split == cluster_config.user_pass_split
             username == IF has_auth THEN user_pass_split[1] ELSE None
             password == IF has_auth THEN user_pass_split[2] ELSE None
             verify_ssl_split == cluster_config.verify_ssl_split
             verify_ssl == IF Len(verify_ssl_split) = 1
                           THEN (IF has_auth THEN "False" ELSE None)
                           ELSE EvalBool(verify_ssl_split[2]).val
         IN  IF has_auth /\ Len(user_pass_split) # 2
             THEN Exit(w, "invalid_cluster_config")
             ELSE IF Len(verify_ssl_split) # 1
                     /\ ~EvalBool(verify_ssl_split[2]).ok
             THEN Exit(w, "invalid_cluster_config")
             ELSE ClusterTokenLoop(
                      _add_cluster_auth_data(w, verify_ssl_split[1],
                          username, password, verify_ssl, ans),
                      Tail(cluster_configs),
                      Append(cluster_list, verify_ssl_split[1]), ans)

_process_config_file_clusters(w, clusters, ans) ==
    ClusterTokenLoop(w, clusters, <<>>, ans)

----------------------------------------------------------------------------
(* Stat group requests: lines 295-383 *)

\* a stat-group request and what was done for it:
\*   src: "cli" or "file"; explicit: an interval was given (else a
\*   multiplier); interval: the interval given; clusters, stats: its cluster
\*   list and stat keys; net: the remote calls made for it; warned: the
\*   warnings of line 228 logged for it; rejected: it was refused as empty;
\*   resolved: the interval computed for each <<cluster, key>>;
\*   buckets: the update_intervals built for it; identity: what each
\*   cluster whose identity was queried for it answered
Request(src, explicit, interval, clusters, stats) ==
    [src |-> src, explicit |-> explicit, interval |-> interval,
     clusters |-> clusters, stats |-> stats,
     net |-> 0, warned |-> 0, rejected |-> FALSE,
     resolved |-> <<>>, buckets |-> <<>>, identity |-> <<>>]

NewRequest(w, request) ==
    [w EXCEPT !.reqs = Append(@, request), !.cur = Len(w.reqs) + 1]

Reject(w, reason) == Exit([w EXCEPT !.reqs[w.cur].rejected = TRUE], reason)

\* the intervals of update_intervals in ascending order
RECURSIVE SortedKeys(_)
SortedKeys(S) ==
    IF S = {} THEN <<>> ELSE <<SetMin(S)>> \o SortedKeys(S \ {SetMin(S)})

\* the for loop of lines 341-349 (a dict is iterated in no particular
\* order; the order decides only the order of the add_stats calls)
RECURSIVE EmitLoop(_, _, _, _, _, _)
EmitLoop(w, intervals, update_intervals, ord, ans, idr) ==
    IF w.status # "run" \/ intervals = <<>> THEN w
    ELSE EmitLoop(
             _configure_stat_group(w, Head(intervals),
                 ListOfSet(update_intervals[Head(intervals)][1], ord),
                 update_intervals[Head(intervals)][2], ans, idr),
             Tail(intervals), update_intervals, ord, ans, idr)

\* lines 341-349 after _compute_stat_group_update_intervals returned
EmitComputed(w3, ord, ans, idr) ==
    IF w3.status # "run" THEN w3
    ELSE EmitLoop([w3 EXCEPT !.reqs[w3.cur].buckets = w3.ret],
                  SortedKeys(DOMAIN w3.ret), w3.ret, ord, ans, idr)

\* line 320: update_interval_param.startswith("*")
IsComputed(param) == param # <<>> /\ Head(param) = "*"

\* lines 322-323 and 333: the multiplier or the interval of the option
ParseUpdateInterval(param) ==
    IF IsComputed(param)
    THEN (IF Len(param) = 1 THEN [ok |-> TRUE, val |-> 1]
          ELSE ParseInt(Tail(param)))
    ELSE ParseInt(param)

\* lines 309-349
FileIntervals(w2, section, cluster_set, ord, ans, idr, resp) ==
    IF cluster_set = {} THEN Reject(w2, "no_clusters")
    ELSE IF ~ParseUpdateInterval(section.update_interval).ok
    THEN Exit(w2, "bad_update_interval")
    ELSE IF IsComputed(section.update_interval)
    THEN EmitComputed(
             _compute_stat_group_update_intervals(w2,
                 ParseUpdateInterval(section.update_interval).val,
                 ListOfSet(cluster_set, ord),
                 ListOfSet(Range(section.stats), <<"s1", "s2">>),
                 <<>>, resp, ans),
             ord, ans, idr)
    ELSE EmitLoop(w2, <<ParseUpdateInterval(section.update_interval).val>>,
             Put(<<>>, ParseUpdateInterval(section.update_interval).val,
                 <<cluster_set, Range(section.stats)>>),
             ord, ans, idr)

\* lines 303-305: the cluster list of the request
FileClusters(w1, section, cluster_set, ord, ans, idr, resp) ==
    IF w1.status # "run" THEN w1
    ELSE FileIntervals([w1 EXCEPT !.reqs[w1.cur].clusters = cluster_set],
                       section, cluster_set, ord, ans, idr, resp)

FileClustersOption(w1, section, global_clusters, ord, ans, idr, resp) ==
    IF w1.status # "run" THEN w1
    ELSE FileClusters(w1, section, Range(global_clusters) \cup Range(w1.ret),
                      ord, ans, idr, resp)

FileRequest(section, global_clusters) ==
    Request("file", ~IsComputed(section.update_interval),
            IF IsComputed(section.update_interval) THEN 0
            ELSE ParseUpdateInterval(section.update_interval).val,
            Range(global_clusters), Range(section.stats))

\* section: the stat group's section of the config file
\*   has_clusters / clusters: the "clusters" option, as cluster tokens
\*   update_interval: the "update_interval" option, a sequence of characters
\*   stats: the "stats" option after split()
_configure_stat_groups_via_file(w, section, global_clusters, ord, ans, idr, resp) ==
    IF section.has_clusters
    THEN FileClustersOption(
             _process_config_file_clusters(
                 NewRequest(w, FileRequest(section, global_clusters)),
                 section.clusters, ans),
             section, global_clusters, ord, ans, idr, resp)
    ELSE FileClusters(NewRequest(w, FileRequest(section, global_clusters)),
                      section, Range(global_clusters), ord, ans, idr, resp)

\* the for loop of lines 374-383
RECURSIVE CliLoop(_, _, _, _, _, _, _)
CliLoop(w, index, stat_groups, update_intervals, cluster_list, ans, idr) ==
    IF w.status # "run" \/ index > Len(stat_groups) THEN w
    ELSE IF stat_groups[index][1] = ""
    THEN Reject(NewRequest(w, Request("cli", TRUE, update_intervals[index],
                                      Range(cluster_list), {})),
                "no_stats")
    ELSE CliLoop(
             _configure_stat_group(
                 NewRequest(w, Request("cli", TRUE, update_intervals[index],
                                       Range(cluster_list),
                                       Range(stat_groups[index]))),
                 update_intervals[index], cluster_list,
                 Range(stat_groups[index]), ans, idr),
             index + 1, stat_groups, update_intervals, cluster_list,
             ans, idr)

\* line 358: the default of args.update_intervals
CliUpdateIntervals(a) ==
    IF a.update_intervals = <<>> THEN <<MIN_UPDATE_INTERVAL>>
    ELSE a.update_intervals

\* a: the parsed command line
\*   clusters: args.clusters.split(","), <<"">> for the empty string
\*   stat_groups: each entry of args.stat_groups after split(",")
\*   update_intervals: args.update_intervals
_configure_stat_groups_via_cli(w, a, ord, ans, idr) ==
    IF Len(a.stat_groups) # Len(CliUpdateIntervals(a))
    THEN Exit(w, "count_mismatch")
    ELSE IF a.clusters[1] = "" THEN Exit(w, "no_clusters")
    ELSE CliLoop(w, 1, a.stat_groups, CliUpdateIntervals(a),
                 ListOfSet(Range(a.clusters), ord), ans, idr)

----------------------------------------------------------------------------
(* Inputs *)

Chars(n) == CASE n = 10 -> <<"1", "0">> [] n = 60 -> <<"6", "0">>
              [] n = 2 -> <<"2">> [] OTHER -> <<"x">>

CommandLine(clusters, stat_groups, update_intervals) ==
    [clusters |-> clusters, stat_groups |-> stat_groups,
     update_intervals |-> update_intervals]

\* command lines: -i clusters, -s stat groups, -u update intervals
ArgsSet ==
    {CommandLine(<<"">>, <<>>, <<>>),
     CommandLine(<<"c1">>, <<>>, <<>>),
     CommandLine(<<"">>, << <<"s1">> >>, <<60>>),
     CommandLine(<<"c1">>, << <<"s1">> >>, <<>>),
     CommandLine(<<"c1", "c2">>, << <<"s1">> >>, <<10>>),
     CommandLine(<<"c1">>, << <<"s1", "s2">>, <<"s2">> >>, <<10, 60>>),
     CommandLine(<<"c1">>, << <<"s1">>, <<"">> >>, <<60, 60>>),
     CommandLine(<<"c2">>, << <<"s1">> >>, <<10, 60>>)}

\* the min_update_interval_override option: absent, or its text
OverrideParams == {<<>>, <<Chars(10)>>, <<Chars(0)>>}

\* "clusters" options of the config file
PlainC1 == <<ClusterToken(0, <<>>, <<"c1">>)>>
GoodC1 == <<ClusterToken(1, <<"admin", "good">>, <<"c1">>)>>
BadC2 == <<ClusterToken(1, <<"admin", "bad">>, <<"c2">>)>>
SslC2 == <<ClusterToken(0, <<>>, <<"c2", "True">>)>>
Malformed == <<ClusterToken(1, <<"admin">>, <<"c1", "maybe">>)>>

ClusterParams == {PlainC1, GoodC1, BadC2, SslC2, Malformed}

\* a stat group section: its "clusters" option (<<>> when it has none), its
\* "update_interval" option and its "stats" option after split()
Section(clusters, update_interval, stats) ==
    [has_clusters |-> clusters # <<>>, clusters |-> clusters,
     update_interval |-> update_interval, stats |-> stats]

Sections ==
    {Section(<<>>, Chars(60), <<"s1">>),
     Section(<<>>, Chars(10), <<"s1", "s2">>),
     Section(<<>>, <<"*">>, <<"s1", "s2">>),
     Section(<<>>, Chars(60), <<>>),
     Section(<<>>, Chars(0), <<"s1">>),
     Section(PlainC1, Chars(60), <<"s1">>),
     Section(PlainC1, <<"*">>, <<"s1", "s2">>),
     Section(PlainC1, <<"*">>, <<>>),
     Section(GoodC1, Chars(10), <<"s2">>),
     Section(GoodC1, Chars(60), <<"s1">>),
     Section(BadC2, Chars(60), <<"s1">>),
     Section(SslC2, Chars(60), <<"s1", "s2">>),
     Section(SslC2, <<"*">>, <<"s1", "s2">>),
     Section(Malformed, Chars(60), <<"s1">>)}

\* what the user types at the prompts of lines 124-133
TypedCreds == {<<"admin", "good", "False">>, <<"admin", "bad", "True">>}

\* answers of a cluster to the identity queries
IdResponses ==
    {[name |-> "isilon", has_get_cluster_version |-> TRUE,
      version_exc |-> FALSE,
      nodes |-> << <<"v", "8", ".", "0", ".", "0">> >>],
     [name |-> "ApiException", has_get_cluster_version |-> FALSE,
      version_exc |-> FALSE, nodes |-> <<>>],
     [name |-> "isilon", has_get_cluster_version |-> TRUE,
      version_exc |-> TRUE, nodes |-> <<>>]}

\* stat metadata a cluster may hold for a key
MetaChoices ==
    {[default_cache_time |-> <<>>, policies |-> <<>>],
     [default_cache_time |-> <<29>>, policies |-> <<>>]}

TokenAddrs(clusters) ==
    {clusters[i].verify_ssl_split[1] : i \in DOMAIN clusters}

\* the addresses whose credential may have to be typed in: those the config
\* file names without username and password, and those not cached complete
NeedsPrompt(involved, clusters) ==
    {a \in involved :
        \/ \E i \in DOMAIN clusters :
              clusters[i].verify_ssl_split[1] = a /\ clusters[i].n_at # 1
        \/ /\ a \notin TokenAddrs(clusters)
           /\ (a \notin DOMAIN g_cluster_auth_data
               \/ ~Complete(g_cluster_auth_data[a]))}

NeedsIdentity(involved) == involved \ DOMAIN g_cluster_names_and_versions

----------------------------------------------------------------------------
(* The configuration pass *)

Commit(w, next_pc) ==
    /\ g_cluster_auth_data' = w.auth
    /\ g_cluster_names_and_versions' = w.nv
    /\ calls' = w.calls
    /\ stat_sets' = w.sets
    /\ reqs' = w.reqs
    /\ prompts' = w.prompts
    /\ probes' = w.probes
    /\ verified' = w.verified
    /\ failed' = w.failed
    /\ name_queries' = w.name_queries
    /\ version_queries' = w.version_queries
    /\ depth_reached' = w.max_depth
    /\ pc' = IF w.status = "run" THEN next_pc ELSE "exit"
    /\ why' = IF w.status = "run" THEN ""
              ELSE IF w.status = "ApiException" THEN "ApiException"
              ELSE w.why

CliStep(next_pc) ==
    \E ord \in Perms(Range(args.clusters)) :
    \E ans \in [NeedsPrompt(Range(args.clusters), <<>>) -> TypedCreds] :
    \E idr \in [NeedsIdentity(Range(args.clusters)) -> IdResponses] :
        /\ Commit(_configure_stat_groups_via_cli(World, args, ord, ans, idr),
                  next_pc)
        /\ args' = [args EXCEPT !.update_intervals = CliUpdateIntervals(args)]

\* configure_via_cli, lines 516-525
ConfigureViaCli ==
    /\ pc = "start"
    /\ CliStep("done")
    /\ UNCHANGED <<MIN_UPDATE_INTERVAL, global_cluster_list, groups_done,
                   fn_in, fn_out>>

\* configure_via_file, lines 454-483
OverrideMinUpdateInterval ==
    /\ pc = "start"
    /\ \E opt \in OverrideParams :
          LET parsed == ParseInt(opt[1])
          IN  IF opt = <<>>
              THEN pc' = "file_cli" /\ UNCHANGED <<why, MIN_UPDATE_INTERVAL>>
              ELSE IF parsed.ok
              THEN pc' = "file_cli" /\ MIN_UPDATE_INTERVAL' = parsed.val
                   /\ UNCHANGED why
              ELSE pc' = "exit" /\ why' = "bad_override"
                   /\ UNCHANGED MIN_UPDATE_INTERVAL
    /\ calls' = <<>> /\ reqs' = <<>>
    /\ UNCHANGED <<args, g_cluster_auth_data, g_cluster_names_and_versions,
                   global_cluster_list, groups_done, stat_sets,
                   prompts, probes, verified, failed, name_queries,
                   version_queries, depth_reached, fn_in, fn_out>>

\* configure_via_file, lines 485-488
ConfigureViaFileCli ==
    /\ pc = "file_cli"
    /\ IF args.update_intervals # <<>> \/ args.stat_groups # <<>>
          \/ args.clusters # <<"">>
       THEN CliStep("file_global")
       ELSE Commit(World, "file_global") /\ UNCHANGED args
    /\ UNCHANGED <<MIN_UPDATE_INTERVAL, global_cluster_list, groups_done,
                   fn_in, fn_out>>

\* lines 494-497, with the cluster list _process_config_file_clusters
\* returned in w.ret
GlobalClusters(w, ord) ==
    /\ Commit(w, "file_groups")
    /\ global_cluster_list' =
          IF w.status = "run" THEN ListOfSet(Range(w.ret), ord) ELSE <<>>

\* configure_via_file, lines 489-497
ConfigureViaFileGlobalClusters ==
    /\ pc = "file_global"
    /\ IF args.clusters # <<"">>
       THEN \E ord \in Perms(Range(args.clusters)) :
               /\ global_cluster_list' = ListOfSet(Range(args.clusters), ord)
               /\ Commit(World, "file_groups")
       ELSE \/ /\ global_cluster_list' = <<>>
               /\ Commit(World, "file_groups")
            \/ \E clusters \in ClusterParams :
               \E ord \in Perms(TokenAddrs(clusters)) :
                  GlobalClusters(
                      _process_config_file_clusters(World, clusters, <<>>),
                      ord)
    /\ UNCHANGED <<args, MIN_UPDATE_INTERVAL, groups_done, fn_in, fn_out>>

\* configure_via_file, lines 500-505: one entry of active_stat_groups
ConfigureStatGroupsViaFile ==
    /\ pc = "file_groups"
    /\ groups_done < MaxGroups
    /\ \E section \in Sections :
          LET involved == Range(global_cluster_list)
                              \cup TokenAddrs(section.clusters)
              computed == section.update_interval # <<>>
                             /\ Head(section.update_interval) = "*"
          IN  \E ord \in Perms(involved) :
              \E ans \in [NeedsPrompt(involved, section.clusters)
                             -> TypedCreds] :
              \E idr \in [NeedsIdentity(involved) -> IdResponses] :
              \E resp \in [IF computed THEN involved ELSE {} ->
                              [Range(section.stats) -> MetaChoices]] :
                 Commit(_configure_stat_groups_via_file(World, section,
                            global_cluster_list, ord, ans, idr, resp),
                        "file_groups")
    /\ groups_done' = groups_done + 1
    /\ UNCHANGED <<args, MIN_UPDATE_INTERVAL, global_cluster_list,
                   fn_in, fn_out>>

\* configure_via_file, lines 507-513
ConfigureViaFileFinish ==
    /\ pc = "file_groups"
    /\ IF get_stat_set_count(stat_sets) = 0
       THEN pc' = "exit" /\ why' = "no_stat_groups"
       ELSE pc' = "done" /\ UNCHANGED why
    /\ calls' = <<>> /\ reqs' = <<>>
    /\ UNCHANGED <<args, MIN_UPDATE_INTERVAL, g_cluster_auth_data,
                   g_cluster_names_and_versions, global_cluster_list,
                   groups_done, stat_sets, prompts, probes,
                   verified, failed, name_queries, version_queries,
                   depth_reached, fn_in, fn_out>>

----------------------------------------------------------------------------
(* The interval of one stat and the version of one cluster, applied to     *)
(* inputs drawn from bounded sets (SpecFn)                                  *)

Policies == {[interval |-> i] : i \in 1..MaxPolicyInterval}

PolicyLists == UNION {[1..n -> Policies] : n \in 0..MaxPolicies}

StatMetadataSet ==
    {[key |-> "s1", default_cache_time |-> d, policies |-> p] :
        d \in {<<>>} \cup {<<n>> : n \in 0..MaxCacheTime},
        p \in PolicyLists}

Releases ==
    {<<"v", "7", ".", "1", ".", "0">>, <<"v", "7", ".", "2", ".", "0">>,
     <<"v", "8", ".", "0", ".", "3">>, <<"v", "8", ".", "1", ".", "0">>,
     <<"8", ".", "0", ".", "0">>}

NodeLists == UNION {[1..n -> Releases] : n \in 0..MaxNodes}

VersionResponses ==
    {[name |-> "isilon", has_get_cluster_version |-> h, version_exc |-> e,
      nodes |-> n] : h \in BOOLEAN, e \in BOOLEAN, n \in NodeLists}

NoMeta == [key |-> "", default_cache_time |-> <<>>, policies |-> <<>>]
NoIdr == [name |-> "", has_get_cluster_version |-> FALSE,
          version_exc |-> FALSE, nodes |-> <<>>]
NoFn == [kind |-> "none", meta |-> NoMeta, mult |-> 1, idr |-> NoIdr]
NoResult == [kind |-> "none", ok |-> TRUE, val |-> 0]

FnInputs ==
    {[kind |-> "interval", meta |-> m, mult |-> k, idr |-> NoIdr] :
        m \in StatMetadataSet, k \in 1..MaxMultiplier}
    \cup
    {[kind |-> "version", meta |-> NoMeta, mult |-> 1, idr |-> r] :
        r \in VersionResponses}

\* lines 261-284 for one stat metadata
ResolveInterval ==
    /\ pc = "fn"
    /\ fn_in.kind = "interval"
    /\ fn_out' = [kind |-> "interval", ok |-> TRUE,
                  val |-> cache_time(fn_in.meta, fn_in.mult)]
    /\ pc' = "done"
    /\ UNCHANGED <<why, args, MIN_UPDATE_INTERVAL, g_cluster_auth_data,
                   g_cluster_names_and_versions, global_cluster_list,
                   groups_done, calls, stat_sets, reqs, prompts, probes,
                   verified, failed, name_queries, version_queries,
                   depth_reached, fn_in>>

VersionResult(w) ==
    [kind |-> "version", ok |-> w.status = "run",
     val |-> IF w.status = "run" THEN w.ret ELSE 0]

\* _query_cluster_version, lines 161-194, for one cluster
QueryClusterVersion ==
    /\ pc = "fn"
    /\ fn_in.kind = "version"
    /\ fn_out' = VersionResult(_query_cluster_version(World, "c1", fn_in.idr))
    /\ pc' = "done"
    /\ UNCHANGED <<why, args, MIN_UPDATE_INTERVAL, g_cluster_auth_data,
                   g_cluster_names_and_versions, global_cluster_list,
                   groups_done, calls, stat_sets, reqs, prompts, probes,
                   verified, failed, name_queries, version_queries,
                   depth_reached, fn_in>>


Init ==
    /\ pc = "start"
    /\ why = ""
    /\ args \in ArgsSet
    /\ MIN_UPDATE_INTERVAL = DEFAULT_MIN_UPDATE_INTERVAL
    /\ g_cluster_auth_data = <<>>
    /\ g_cluster_names_and_versions = <<>>
    /\ global_cluster_list = <<>>
    /\ groups_done = 0
    /\ calls = <<>>
    /\ stat_sets = <<>>
    /\ reqs = <<>>
    /\ prompts = [a \in AddrUniverse |-> 0]
    /\ probes = [a \in AddrUniverse |-> 0]
    /\ verified = {}
    /\ failed = {}
    /\ name_queries = [a \in AddrUniverse |-> 0]
    /\ version_queries = [a \in AddrUniverse |-> 0]
    /\ depth_reached = 0
    /\ fn_in = NoFn
    /\ fn_out = NoResult

Next ==
    \/ ConfigureViaCli
    \/ OverrideMinUpdateInterval
    \/ ConfigureViaFileCli
    \/ ConfigureViaFileGlobalClusters
    \/ ConfigureStatGroupsViaFile
    \/ ConfigureViaFileFinish

Spec == Init /\ [][Next]_vars

InitFn ==
    /\ pc = "fn"
    /\ why = ""
    /\ args = CommandLine(<<"">>, <<>>, <<>>)
    /\ MIN_UPDATE_INTERVAL = DEFAULT_MIN_UPDATE_INTERVAL
    /\ g_cluster_auth_data = <<>>
    /\ g_cluster_names_and_versions = <<>>
    /\ global_cluster_list = <<>>
    /\ groups_done = 0
    /\ calls = <<>>
    /\ stat_sets = <<>>
    /\ reqs = <<>>
    /\ prompts = [a \in AddrUniverse |-> 0]
    /\ probes = [a \in AddrUniverse |-> 0]
    /\ verified = {}
    /\ failed = {}
    /\ name_queries = [a \in AddrUniverse |-> 0]
    /\ version_queries = [a \in AddrUniverse |-> 0]
    /\ depth_reached = 0
    /\ fn_in \in FnInputs
    /\ fn_out = NoResult

NextFn == ResolveInterval \/ QueryClusterVersion

SpecFn == InitFn /\ [][NextFn]_vars

----------------------------------------------------------------------------
(* C1 *)

MinPolicyInterval(policies) ==
    SetMin({policies[i].interval : i \in DOMAIN policies})

\* C1: for a stat metadata with a non-empty policy list, whatever its
\* default cache time, the computed interval is the smallest policy
\* interval times the multiplier.
C1_PolicySupersedesCacheTime ==
    (fn_out.kind = "interval" /\ fn_in.meta.policies # <<>>)
        => fn_out.val = MinPolicyInterval(fn_in.meta.policies) * fn_in.mult

----------------------------------------------------------------------------
(* C6 *)

ReportingNodes(nodes) == nodes # <<>> /\ \A i \in DOMAIN nodes : nodes[i][1] = "v"

MinNodeVersion(nodes) ==
    SetMin({NodeVersion(nodes[i]).val : i \in DOMAIN nodes})

\* C6: when the version query succeeds and every node reports a release,
\* the cluster version is the minimum of the node versions.
C6_VersionIsMinimumOverNodes ==
    (/\ fn_out.kind = "version"
     /\ fn_in.idr.has_get_cluster_version
     /\ ~fn_in.idr.version_exc
     /\ ReportingNodes(fn_in.idr.nodes))
        => (fn_out.ok /\ fn_out.val = MinNodeVersion(fn_in.idr.nodes))

----------------------------------------------------------------------------
(* C2 *)

\* C2: after any sequence of stat-group requests, every cluster address has
\* been prompted for at most once and probed at most once.
C2_CredentialsResolvedOnce ==
    \A a \in AddrUniverse : prompts[a] <= 1 /\ probes[a] <= 1

----------------------------------------------------------------------------
(* C3 *)

CallAddrs(call) == {cc.address : cc \in call.cluster_configs}

NonEmptyCall(call) == call.cluster_configs # {} /\ call.stats # {}

CallsAt(cs, i) ==
    {k \in DOMAIN cs : cs[k].update_interval = i /\ NonEmptyCall(cs[k])}

\* the stat sets old after the add_stats calls cs, taken in any order
Merged(old, cs) ==
    [i \in DOMAIN old \cup {cs[k].update_interval :
                               k \in {j \in DOMAIN cs : NonEmptyCall(cs[j])}}
        |-> [clusters |->
                 (IF i \in DOMAIN old THEN old[i].clusters ELSE {})
                     \cup UNION {CallAddrs(cs[k]) : k \in CallsAt(cs, i)},
             stats |->
                 (IF i \in DOMAIN old THEN old[i].stats ELSE {})
                     \cup UNION {cs[k].stats : k \in CallsAt(cs, i)}]]

----------------------------------------------------------------------------
(* C4 *)

\* C4: in every bucket built for a computed request, every cluster of the
\* bucket's cluster set and every stat key of its stat-key set resolved, as
\* a pair, to the bucket's interval.
C4_BucketPairsShareInterval ==
    \A r \in DOMAIN reqs :
        \A i \in DOMAIN reqs[r].buckets :
            \A c \in reqs[r].buckets[i][1], s \in reqs[r].buckets[i][2] :
                /\ <<c, s>> \in DOMAIN reqs[r].resolved
                /\ reqs[r].resolved[<<c, s>>] = i

----------------------------------------------------------------------------
(* C5 *)

CallsOf(r) == {k \in DOMAIN calls : calls[k].req = r}

\* C5: every StatsConfig passed to add_stats has an update interval of at
\* least MIN_UPDATE_INTERVAL; an explicit request below it that reaches
\* add_stats does so once, at exactly MIN_UPDATE_INTERVAL, with one warning;
\* an explicit request not below it is passed at the interval it asked for,
\* without a warning.
C5_MinimumIntervalFloor ==
    /\ \A k \in DOMAIN calls :
          calls[k].update_interval >= MIN_UPDATE_INTERVAL
    /\ \A r \in DOMAIN reqs :
          reqs[r].explicit =>
              /\ Cardinality(CallsOf(r)) <= 1
              /\ reqs[r].warned = (IF CallsOf(r) # {}
                                      /\ reqs[r].interval < MIN_UPDATE_INTERVAL
                                   THEN 1 ELSE 0)
              /\ \A k \in CallsOf(r) :
                    calls[k].update_interval =
                        (IF reqs[r].interval < MIN_UPDATE_INTERVAL
                         THEN MIN_UPDATE_INTERVAL ELSE reqs[r].interval)

\* an explicit request below the floor was raised and registered
C5_Witness ==
    \E r \in DOMAIN reqs :
        /\ reqs[r].explicit
        /\ reqs[r].interval < MIN_UPDATE_INTERVAL
        /\ reqs[r].warned = 1
        /\ \E k \in CallsOf(r) :
              /\ MIN_UPDATE_INTERVAL \in DOMAIN stat_sets
              /\ calls[k].stats \subseteq stat_sets[MIN_UPDATE_INTERVAL].stats

----------------------------------------------------------------------------
(* C7 *)

\* C7: a request with an empty cluster list or an empty stat-key list ends
\* the configuration pass with an error, and no remote call was made for it.
C7_EmptyInputRejectedBeforeNetwork ==
    \A r \in DOMAIN reqs :
        (reqs[r].clusters = {} \/ reqs[r].stats = {})
            => (pc = "exit" /\ reqs[r].net = 0)

----------------------------------------------------------------------------
(* C8 *)

\* C8: every StatsConfig passed to add_stats has at least one cluster config
\* and at least one stat key.
C8_NoEmptyStatsConfig ==
    \A k \in DOMAIN calls : NonEmptyCall(calls[k])

----------------------------------------------------------------------------
(* C9 *)

\* C9: every cluster config of a StatsConfig passed to add_stats carries the
\* complete credential cached for its address, that address has passed the
\* auth probe, and its name and version are the cached identity.
C9_ResolutionPrecedesEmission ==
    \A k \in DOMAIN calls :
        \A cc \in calls[k].cluster_configs :
            /\ cc.address \in DOMAIN g_cluster_auth_data
            /\ g_cluster_auth_data[cc.address] =
                   <<cc.username, cc.password, cc.verify_ssl>>
            /\ cc.username # None /\ cc.password # None
            /\ cc.verify_ssl # None
            /\ cc.address \in verified
            /\ cc.address \in DOMAIN g_cluster_names_and_versions
            /\ g_cluster_names_and_versions[cc.address] =
                   <<cc.name, cc.version>>

\* a StatsConfig with a cluster whose credential was completed by prompting
C9_Witness ==
    \E k \in DOMAIN calls :
        \E cc \in calls[k].cluster_configs :
            prompts[cc.address] > 0 /\ calls[k].stats # {}

----------------------------------------------------------------------------
(* C10 *)

\* C10: once an auth probe has failed the configuration has exited on the
\* authentication error, and since the failure no probe was issued, no
\* StatsConfig was passed to add_stats and no stat set changed.
C10_FailedProbeIsFatal ==
    \A f \in failed :
        /\ pc = "exit" /\ why = "auth"
        /\ Cardinality(failed) = 1
        /\ probes = f.probes
        /\ Len(calls) = f.calls
        /\ stat_sets = f.sets

\* a probe failed after a stat group had been registered
C10_Witness ==
    \E f \in failed : DOMAIN f.sets # {} /\ probes[f.address] = 1

----------------------------------------------------------------------------
(* C11 *)

\* C11: get_cluster_identity and get_cluster_version are each called at most
\* once for an address, an address with a cached identity has been asked for
\* its name exactly once, and a step never changes or removes an entry of
\* g_cluster_names_and_versions.
C11_IdentityCachedOnce ==
    /\ [](\A a \in AddrUniverse :
            /\ name_queries[a] <= 1
            /\ version_queries[a] <= 1
            /\ a \in DOMAIN g_cluster_names_and_versions
                   => name_queries[a] = 1)
    /\ [][\A a \in DOMAIN g_cluster_names_and_versions :
            /\ a \in DOMAIN g_cluster_names_and_versions'
            /\ g_cluster_names_and_versions'[a]
                   = g_cluster_names_and_versions[a]]_vars

\* an address whose credential was resolved and probed twice, with one
\* name query and one version query
C11_Witness ==
    \E a \in DOMAIN g_cluster_names_and_versions :
        /\ probes[a] >= 2
        /\ name_queries[a] = 1
        /\ version_queries[a] = 1
        /\ \E k \in DOMAIN calls :
              \E cc \in calls[k].cluster_configs : cc.address = a

----------------------------------------------------------------------------
(* C12 *)

\* C12: for a stat metadata without policies the computed interval is
\* (default_cache_time + 1) * multiplier when default_cache_time is present
\* and 1 * multiplier when it is absent.
C12_IntervalWithoutPolicies ==
    (fn_out.kind = "interval" /\ fn_in.meta.policies = <<>>)
        => fn_out.val =
               (IF fn_in.meta.default_cache_time = <<>> THEN 1
                ELSE fn_in.meta.default_cache_time[1] + 1) * fn_in.mult

\* a cache time of MaxCacheTime seconds and no policy, at multiplier 2
C12_Witness ==
    /\ fn_out.kind = "interval"
    /\ fn_in.meta.policies = <<>>
    /\ fn_in.meta.default_cache_time = <<MaxCacheTime>>
    /\ fn_in.mult = 2
    /\ fn_out.val = (MaxCacheTime + 1) * 2

----------------------------------------------------------------------------
(* C13 *)

NameQueryFailed(answer) == answer.name = "ApiException"

VersionQueryFailed(answer) ==
    ~answer.has_get_cluster_version \/ answer.version_exc

\* C13: when the name query of a cluster raised an ApiException its cached
\* name is its address; when the client has no get_cluster_version or the
\* version query raised an ApiException its cached version is 7.2; and the
\* cluster, with that name and version, is in a StatsConfig passed to
\* add_stats for the request, unless a later auth probe failed.
C13_IdentityFallbacks ==
    \A r \in DOMAIN reqs :
        \A a \in DOMAIN reqs[r].identity :
            (NameQueryFailed(reqs[r].identity[a])
                 \/ VersionQueryFailed(reqs[r].identity[a]))
            => /\ a \in DOMAIN g_cluster_names_and_versions
               /\ NameQueryFailed(reqs[r].identity[a])
                      => g_cluster_names_and_versions[a][1] = a
               /\ VersionQueryFailed(reqs[r].identity[a])
                      => g_cluster_names_and_versions[a][2] = 72
               /\ why \notin {"ApiException", "ValueError"}
               /\ \/ failed # {}
                  \/ \E k \in CallsOf(r) :
                        \E cc \in calls[k].cluster_configs :
                            /\ cc.address = a
                            /\ <<cc.name, cc.version>>
                                   = g_cluster_names_and_versions[a]

\* the name query of a cluster failed, its client has no get_cluster_version,
\* and the stat group was registered with the cluster in it
C13_Witness ==
    /\ pc # "exit"
    /\ \E r \in DOMAIN reqs :
          \E a \in DOMAIN reqs[r].identity :
              /\ NameQueryFailed(reqs[r].identity[a])
              /\ VersionQueryFailed(reqs[r].identity[a])
              /\ \E i \in DOMAIN stat_sets : a \in stat_sets[i].clusters

----------------------------------------------------------------------------
(* C14 *)

ClustersOnlyCommandLine ==
    /\ args.clusters # <<"">>
    /\ args.stat_groups = <<>>
    /\ args.update_intervals = <<>>

\* C14: in configure_via_file, with clusters but no stat groups and no update
\* intervals on the command line, the command-line step does not end the
\* pass, and the command-line clusters are the global cluster list the stat
\* groups of the config file are configured with.
C14_CliClustersServeFileGroups ==
    /\ [][(pc = "file_cli" /\ ClustersOnlyCommandLine)
             => (pc' = "file_global" /\ why' = "")]_vars
    /\ []((pc = "file_groups" /\ args.clusters # <<"">>)
             => Range(global_cluster_list) = Range(args.clusters))

----------------------------------------------------------------------------
(* C15 *)

\* C15: _get_cluster_auth_data is never active more than twice at once, the
\* call that prompts and the call made by the metadata query of its probe,
\* and the interpreter's recursion limit is never met.
C15_OneNestedLevel ==
    /\ depth_reached <= 2
    /\ why # "RecursionError"

\* c1 was prompted for and probed: the metadata query of the probe called
\* _get_cluster_auth_data inside the call that prompted, and the probe passed
C15_Witness ==
    /\ depth_reached = 2
    /\ pc # "exit"
    /\ prompts["c1"] = 1
    /\ probes["c1"] = 1
    /\ "c1" \in verified

====
